---------------------------- MODULE Spec2Model ----------------------------
(***************************************************************************)
(* Stochastic growth of 2D / 3D Young diagrams and the multi-run frequency *)
(* aggregation of DiagramSimulator2D / DiagramSimulator3D.                  *)
(*                                                                         *)
(* A 2D cell is a pair <<x, y>>, a 3D cell a triple <<x, y, z>>.  A Python *)
(* Optional is a sequence of length at most one: <<>> is None and <<v>> is *)
(* the value v.  A dict is a function whose DOMAIN is its key set.         *)
(***************************************************************************)
EXTENDS Integers, Sequences, FiniteSets, Bags, TLC

(***************************************************************************)
(* Bounds of the exploration.                                              *)
(***************************************************************************)
\* largest n_steps a caller passes
MaxSteps == 2
\* number of runs one simulator object executes over all its simulate calls
MaxRuns == 2

\* largest coordinate of a cell handed to a diagram directly
MaxCoord == 1
\* largest number of cells of a diagram that is used directly
MaxCells == 4

\* largest number of entries of a map handed to a utility directly
MaxEntries == 2
\* largest alpha a direct caller of calculate_weight passes
MaxAlpha == 2
\* n_steps of the one long run of a simulator that is used for nothing else
LongSteps == 11

\* values of alpha a caller passes (0 stands for every alpha <= 0)
Alphas == {0, 1}

\* the callers modelled pass a callback
CallbackChoices == {TRUE}

None == <<>>
Some(v) == <<v>>

\* the empty defaultdict(int)
EmptyCounts == [c \in {} |-> 0]

\* initial_cells arguments of a 2D caller: None, the empty set, order ideals,
\* and sets that are not downward closed (the constructor does not validate)
InitialCellChoices2D ==
    { None,
      Some({}),
      Some({<<0, 0>>}),
      Some({<<0, 0>>, <<1, 0>>}),
      Some({<<1, 1>>}),
      Some({<<2, 1>>, <<1, 2>>}) }

InitialCellChoices3D ==
    { None,
      Some({}),
      Some({<<0, 0, 0>>}),
      Some({<<1, 1, 0>>}),
      Some({<<2, 1, 0>>, <<1, 2, 0>>}) }

\* the cells a caller of the diagram classes and of the utilities names
Grid(d) ==
    IF d = 2
    THEN { <<x, y>> : x \in 0..(MaxCoord + 1), y \in 0..(MaxCoord + 1) }
    ELSE { <<x, y, z>> : x \in 0..MaxCoord, y \in 0..MaxCoord, z \in 0..MaxCoord }

\* initial_cells arguments of a direct caller of Diagram2D / Diagram3D: None,
\* the empty set, or any one cell; add_cell then builds every set from them
DiagramArguments(d) == {None, Some({})} \cup { Some({c}) : c \in Grid(d) }

\* the cells of the grid that MaxCoord + 1 growth steps from the origin reach
MapCells(d) ==
    { c \in Grid(d) : (IF d = 2 THEN c[1] + c[2] ELSE c[1] + c[2] + c[3]) <= MaxCoord + 1 }

RECURSIVE FrequencyMaps(_, _)
\* the frequency maps a simulator holds or a utility is handed: the maps of
\* at most k entries over these cells, with the counts that MaxRuns runs give
FrequencyMaps(d, k) ==
    IF k = 0 THEN {EmptyCounts}
    ELSE LET smaller == FrequencyMaps(d, k - 1)
         IN  smaller \cup { (c :> n) @@ m : m \in smaller, c \in MapCells(d), n \in 1..MaxRuns }

\* the scaling_factor arguments: None, or a float
ScalingFactors == {None, Some(-1), Some(0), Some(1)}

(***************************************************************************)
(* Diagram2D                                                               *)
(***************************************************************************)
\* Diagram2D.__init__: initial_cells if initial_cells else {(0, 0)}
Diagram2D_cells(initial_cells) ==
    IF initial_cells # None /\ initial_cells[1] # {}
    THEN initial_cells[1]
    ELSE {<<0, 0>>}

\* the boundary with "all forward neighbours missing" in the place of "some"
calculate_boundary_cells2D_AllMissing(cells) ==
    { c \in cells : <<c[1] + 1, c[2]>> \notin cells /\ <<c[1], c[2] + 1>> \notin cells }

\* Diagram2D._calculate_boundary_cells
calculate_boundary_cells2D(cells) ==
    { c \in cells : <<c[1] + 1, c[2]>> \notin cells \/ <<c[1], c[2] + 1>> \notin cells }

\* get_addable_cells with the left-neighbour check forgotten
get_addable_cells2D_NoLeftCheck(cells, boundary_cells) ==
    LET neighbors(c) == { <<c[1] + 1, c[2]>>, <<c[1], c[2] + 1>> }
        has_support_below(n) == n[2] = 0 \/ <<n[1], n[2] - 1>> \in cells
    IN  UNION { { n \in neighbors(c) :
                    /\ n \notin cells
                    /\ has_support_below(n) } : c \in boundary_cells }

\* get_addable_cells with the "== 0 or" of the two support checks forgotten
get_addable_cells2D_NoEdge(cells, boundary_cells) ==
    LET neighbors(c) == { <<c[1] + 1, c[2]>>, <<c[1], c[2] + 1>> }
        has_support_below(n) == <<n[1], n[2] - 1>> \in cells
        has_left_neighbor(n) == <<n[1] - 1, n[2]>> \in cells
    IN  UNION { { n \in neighbors(c) :
                    /\ n \notin cells
                    /\ has_support_below(n)
                    /\ has_left_neighbor(n) } : c \in boundary_cells }

\* Diagram2D.get_addable_cells
get_addable_cells2D(cells, boundary_cells) ==
    LET neighbors(c) == { <<c[1] + 1, c[2]>>, <<c[1], c[2] + 1>> }
        has_support_below(n) == n[2] = 0 \/ <<n[1], n[2] - 1>> \in cells
        has_left_neighbor(n) == n[1] = 0 \/ <<n[1] - 1, n[2]>> \in cells
    IN  UNION { { n \in neighbors(c) :
                    /\ n \notin cells
                    /\ has_support_below(n)
                    /\ has_left_neighbor(n) } : c \in boundary_cells }

(***************************************************************************)
(* Diagram3D                                                               *)
(***************************************************************************)
\* the constructor with "is not None" in the place of the truth test: an
\* empty set of the caller is kept
Diagram3D_cells_KeepEmpty(initial_cells) ==
    IF initial_cells # None
    THEN initial_cells[1]
    ELSE {<<0, 0, 0>>}

\* Diagram3D.__init__: initial_cells if initial_cells else {(0, 0, 0)}
Diagram3D_cells(initial_cells) ==
    IF initial_cells # None /\ initial_cells[1] # {}
    THEN initial_cells[1]
    ELSE {<<0, 0, 0>>}

\* Diagram3D._calculate_boundary_cells
calculate_boundary_cells3D(cells) ==
    { c \in cells : \/ <<c[1] + 1, c[2], c[3]>> \notin cells
                    \/ <<c[1], c[2] + 1, c[3]>> \notin cells
                    \/ <<c[1], c[2], c[3] + 1>> \notin cells }

\* get_addable_cells with the "not in self.cells" test forgotten
get_addable_cells3D_NoMembershipCheck(cells, boundary_cells) ==
    LET neighbors(c) == { <<c[1] + 1, c[2], c[3]>>,
                          <<c[1], c[2] + 1, c[3]>>,
                          <<c[1], c[2], c[3] + 1>> }
        has_support_below(n) == n[2] = 0 \/ <<n[1], n[2] - 1, n[3]>> \in cells
        has_left_neighbor(n) == n[1] = 0 \/ <<n[1] - 1, n[2], n[3]>> \in cells
        has_back_neighbor(n) == n[3] = 0 \/ <<n[1], n[2], n[3] - 1>> \in cells
    IN  UNION { { n \in neighbors(c) :
                    /\ has_support_below(n)
                    /\ has_left_neighbor(n)
                    /\ has_back_neighbor(n) } : c \in boundary_cells }

\* Diagram3D.get_addable_cells
get_addable_cells3D(cells, boundary_cells) ==
    LET neighbors(c) == { <<c[1] + 1, c[2], c[3]>>,
                          <<c[1], c[2] + 1, c[3]>>,
                          <<c[1], c[2], c[3] + 1>> }
        has_support_below(n) == n[2] = 0 \/ <<n[1], n[2] - 1, n[3]>> \in cells
        has_left_neighbor(n) == n[1] = 0 \/ <<n[1] - 1, n[2], n[3]>> \in cells
        has_back_neighbor(n) == n[3] = 0 \/ <<n[1], n[2], n[3] - 1>> \in cells
    IN  UNION { { n \in neighbors(c) :
                    /\ n \notin cells
                    /\ has_support_below(n)
                    /\ has_left_neighbor(n)
                    /\ has_back_neighbor(n) } : c \in boundary_cells }

(***************************************************************************)
(* Weights and the weighted draw                                           *)
(***************************************************************************)
RECURSIVE Pow(_, _)
\* b ** e for an integer exponent e >= 0
Pow(b, e) == IF e <= 0 THEN 1 ELSE b * Pow(b, e - 1)

\* the weight without the "+ 1" of the two coordinates
calculate_weight2D_NoOffset(cell, alpha) == Pow(cell[1] + cell[2], alpha)

\* Diagram2D.calculate_weight
calculate_weight2D(cell, alpha) == Pow((cell[1] + 1) + (cell[2] + 1), alpha)

\* the weight with the "+ 1" of the last factor forgotten
calculate_weight3D_NoPlusOne(cell, alpha) ==
    Pow((cell[1] + 1) * (cell[2] + 1) * cell[3], alpha)

\* the weight with the sum of the sides in the place of their product
calculate_weight3D_Sum(cell, alpha) ==
    Pow((cell[1] + 1) + (cell[2] + 1) + (cell[3] + 1), alpha)

\* Diagram3D.calculate_weight
calculate_weight3D(cell, alpha) == Pow((cell[1] + 1) * (cell[2] + 1) * (cell[3] + 1), alpha)

\* random.choices(cells_list, weights=probabilities, k=1): the cells that can
\* be drawn are those of positive weight
Drawable2D(addable_cells, alpha) ==
    { c \in addable_cells : calculate_weight2D(c, alpha) > 0 }

Drawable3D(addable_cells, alpha) ==
    { c \in addable_cells : calculate_weight3D(c, alpha) > 0 }

\* tuple comparison of Python: a < b for two cells of the same length
TupleLess(a, b) ==
    \E i \in 1..Len(a) :
        /\ \A j \in 1..(i - 1) : a[j] = b[j]
        /\ a[i] < b[i]

\* the iteration orders a set object can have: CPython iterates a set in the
\* order of its hash table, which depends on the contents and on how the
\* object was built; two of these orders are modelled
SetOrders == {"asc", "desc"}

\* the order of a set the diagram builds itself
FreshOrder == "asc"

RECURSIVE ListOf(_, _)
\* list(a_set): the elements in the iteration order of the set object
ListOf(S, order) ==
    IF S = {} THEN <<>>
    ELSE LET first == CHOOSE c \in S :
                          \A o \in S \ {c} :
                              IF order = "asc" THEN TupleLess(c, o) ELSE TupleLess(o, c)
         IN  <<first>> \o ListOf(S \ {first}, order)

\* denominator of the values random.random() takes here: a draw k stands for
\* the float k / DrawGrid in [0, 1)
DrawGrid == 4

\* the draws of a seeded random module: a low and a high value of random.random()
Draws == {0, DrawGrid - 1}

RECURSIVE SumTo(_, _)
\* itertools.accumulate(weights): the sum of the first i weights
SumTo(weights, i) == IF i = 0 THEN 0 ELSE weights[i] + SumTo(weights, i - 1)

\* random.choices(cells_list, weights=probabilities, k=1)[0] for the draw u:
\* population[bisect(cum_weights, random() * total, 0, n - 1)], the first
\* index whose cumulated probability exceeds u / DrawGrid
choices(cells_list, weights, u) ==
    LET n == Len(cells_list)
        total_weight == SumTo(weights, n)
        hit == { i \in 1..n : SumTo(weights, i) * DrawGrid > u * total_weight }
        index == IF hit = {} THEN n ELSE CHOOSE i \in hit : \A j \in hit : i <= j
    IN  cells_list[index]

(***************************************************************************)
(* common/utils.py                                                         *)
(***************************************************************************)
\* cell_counts.items() of a dict whose keys iterate in the given order
items(cell_counts, order) ==
    LET keys == ListOf(DOMAIN cell_counts, order)
    IN  [ i \in 1..Len(keys) |-> <<keys[i], cell_counts[keys[i]]>> ]

\* (coords, count) < (coords2, count2)
ItemLess(a, b) == TupleLess(a[1], b[1]) \/ (a[1] = b[1] /\ a[2] < b[2])

RECURSIVE Insert(_, _)
\* the sorted sequence sorted_items with item put in its place
Insert(item, sorted_items) ==
    IF sorted_items = <<>> THEN <<item>>
    ELSE IF ItemLess(Head(sorted_items), item)
         THEN <<Head(sorted_items)>> \o Insert(item, Tail(sorted_items))
         ELSE <<item>> \o sorted_items

RECURSIVE sorted(_)
\* sorted(an_iterable_of_items)
sorted(item_seq) ==
    IF item_seq = <<>> THEN <<>> ELSE Insert(Head(item_seq), sorted(Tail(item_seq)))

\* f'{x},{y},{count}\n' and f'{x},{y},{z},{count}\n'; a key of another length
\* writes nothing
FormatLine(coords, count) ==
    IF Len(coords) = 2
    THEN ToString(coords[1]) \o "," \o ToString(coords[2]) \o "," \o ToString(count) \o "\n"
    ELSE IF Len(coords) = 3
    THEN ToString(coords[1]) \o "," \o ToString(coords[2]) \o "," \o ToString(coords[3])
             \o "," \o ToString(count) \o "\n"
    ELSE ""

\* the dump that writes the items in the order the dict yields them
save_cells_to_file_Unsorted(cell_counts, order) ==
    LET entries == items(cell_counts, order)
    IN  [ i \in 1..Len(entries) |-> FormatLine(entries[i][1], entries[i][2]) ]

\* save_cells_to_file: the writes to the file, one per item of
\* sorted(cell_counts.items())
save_cells_to_file(cell_counts, order) ==
    LET entries == sorted(items(cell_counts, order))
    IN  [ i \in 1..Len(entries) |-> FormatLine(entries[i][1], entries[i][2]) ]

RECURSIVE SumOf(_)
\* x + y, x + y + z
SumOf(coords) == IF coords = <<>> THEN 0 ELSE Head(coords) + SumOf(Tail(coords))

\* max(...) of a non-empty set of integers
Max(S) == CHOOSE m \in S : \A o \in S : o <= m

\* np.sqrt(n) and np.cbrt(n), and a float v the caller passes: the real
\* number whose degree-th power is the radicand
sqrt(n) == [degree |-> 2, radicand |-> n]
cbrt(n) == [degree |-> 3, radicand |-> n]
float(v) == [degree |-> 1, radicand |-> v]

\* scaling_factor <= 0: np.sqrt of a negative number is nan, and nan <= 0 is False
NonPositive(f) == IF f.degree = 2 THEN f.radicand = 0 ELSE f.radicand <= 0

ErrNoData == "ValueError: no data"
ErrDimensions == "ValueError: dimensions"
ErrUnpack == "ValueError: values to unpack"
ErrScaling == "ValueError: scaling factor"
LimitShapeErrors == {ErrNoData, ErrDimensions, ErrUnpack, ErrScaling}

\* compute_limit_shape with the check of the scaling factor forgotten
compute_limit_shape_NoFactorCheck(cell_counts, scaling_factor, dimensions) ==
    IF DOMAIN cell_counts = {} THEN ErrNoData
    ELSE IF dimensions \notin {2, 3} THEN ErrDimensions
    ELSE IF scaling_factor = None /\ \E c \in DOMAIN cell_counts : Len(c) # dimensions
         THEN ErrUnpack
    ELSE "grid"

\* compute_limit_shape taking the smallest coordinate sum for n
compute_limit_shape_MinSum(cell_counts, scaling_factor, dimensions) ==
    IF DOMAIN cell_counts = {} THEN ErrNoData
    ELSE IF dimensions \notin {2, 3} THEN ErrDimensions
    ELSE IF scaling_factor = None /\ \E c \in DOMAIN cell_counts : Len(c) # dimensions
         THEN ErrUnpack
    ELSE LET n == - Max({ - SumOf(c) : c \in DOMAIN cell_counts })
             factor == IF scaling_factor # None THEN float(scaling_factor[1])
                       ELSE IF dimensions = 2 THEN sqrt(n) ELSE cbrt(n)
         IN  IF NonPositive(factor) THEN ErrScaling ELSE "grid"

\* compute_limit_shape up to the interpolation: the error it raises, or
\* "grid" when the scaled points are handed to griddata
compute_limit_shape(cell_counts, scaling_factor, dimensions) ==
    IF DOMAIN cell_counts = {} THEN ErrNoData
    ELSE IF dimensions \notin {2, 3} THEN ErrDimensions
    ELSE IF scaling_factor = None /\ \E c \in DOMAIN cell_counts : Len(c) # dimensions
         THEN ErrUnpack
    ELSE LET n == Max({ SumOf(c) : c \in DOMAIN cell_counts })
             factor == IF scaling_factor # None THEN float(scaling_factor[1])
                       ELSE IF dimensions = 2 THEN sqrt(n) ELSE cbrt(n)
         IN  IF NonPositive(factor) THEN ErrScaling ELSE "grid"

\* frequencies normalized by the sum of the counts
frequencies_BySum(cell_counts, order) ==
    LET entries == items(cell_counts, order)
        total == SumOf([ i \in 1..Len(entries) |-> entries[i][2] ])
    IN  [ i \in 1..Len(entries) |-> [num |-> entries[i][2], den |-> total] ]

\* compute_limit_shape: max_freq = max(cell_counts.values()) and, per item of
\* cell_counts.items(), frequencies.append(count / max_freq), each quotient as
\* the fraction num / den
frequencies(cell_counts, order) ==
    LET entries == items(cell_counts, order)
        max_freq == Max({ cell_counts[c] : c \in DOMAIN cell_counts })
    IN  [ i \in 1..Len(entries) |-> [num |-> entries[i][2], den |-> max_freq] ]

(***************************************************************************)
(* Parameter validation                                                    *)
(***************************************************************************)
\* the 2D engine taking the 3D engine's way out
ExhaustionPolicy2D_Break == "break"

\* Diagram2D.simulate with no addable cell: raise ValueError
ExhaustionPolicy2D == "raise"

\* the 3D engine taking the 2D engine's way out
ExhaustionPolicy3D_Raise == "raise"

\* Diagram3D.simulate with no addable cell: logger.warning and break
ExhaustionPolicy3D == "break"

\* Diagram2D.simulate: "if callback:" calls it after every add
ObservedStep2D(step) == TRUE

\* Diagram3D.simulate: "if callback and step % 10 == 0:"
ObservedStep3D(step) == step % 10 = 0

\* the ValueError messages, by the parameter they complain about
NoError == "no error"
ErrSteps == "ValueError: n_steps"
ErrRuns == "ValueError: runs"
ErrAlpha == "ValueError: alpha"
ErrNoAddable == "ValueError: no addable cells"
ValueErrors == {ErrSteps, ErrRuns, ErrAlpha, ErrNoAddable}

\* the validation of the 2D simulator with the check of runs forgotten
SimulatorValidation2D_NoRunsCheck(n_steps, alpha, runs) ==
    IF n_steps <= 0 THEN ErrSteps
    ELSE IF alpha <= 0 THEN ErrAlpha
    ELSE NoError

\* the validation at the head of DiagramSimulator2D.simulate
SimulatorValidation2D(n_steps, alpha, runs) ==
    IF n_steps <= 0 THEN ErrSteps
    ELSE IF runs <= 0 THEN ErrRuns
    ELSE IF alpha <= 0 THEN ErrAlpha
    ELSE NoError

\* the validation at the head of DiagramSimulator3D.simulate
SimulatorValidation3D(n_steps, alpha, runs) ==
    IF n_steps <= 0 THEN ErrSteps
    ELSE IF runs <= 0 THEN ErrRuns
    ELSE NoError

\* the validation at the head of Diagram2D.simulate
DiagramValidation2D(n_steps, alpha) ==
    IF n_steps <= 0 THEN ErrSteps ELSE NoError

\* the validation at the head of Diagram3D.simulate
DiagramValidation3D(n_steps, alpha) ==
    IF n_steps <= 0 THEN ErrSteps
    ELSE IF alpha <= 0 THEN ErrAlpha
    ELSE NoError

(***************************************************************************)
(* The frequency map                                                       *)
(***************************************************************************)
\* the counter update run over every key of the counter as well
FoldCells_EveryKey(counts, cells) ==
    [ c \in DOMAIN counts \cup cells |->
        (IF c \in DOMAIN counts THEN counts[c] ELSE 0) + 1 ]

\* the counter update with "= 1" in the place of "+= 1"
FoldCells_SetToOne(counts, cells) ==
    [ c \in DOMAIN counts \cup cells |-> IF c \in cells THEN 1 ELSE counts[c] ]

\* for cell in diagram.cells: self.total_cell_counts[cell] += 1
FoldCells(counts, cells) ==
    [ c \in DOMAIN counts \cup cells |->
        (IF c \in DOMAIN counts THEN counts[c] ELSE 0) + (IF c \in cells THEN 1 ELSE 0) ]

\* simulate without the reset of the counter
ResetCounts_Keep(counts) == counts

\* self.total_cell_counts = defaultdict(int) at the head of simulate
ResetCounts(counts) == EmptyCounts

\* growth_callback counting into self.total_cell_counts itself, the copy forgotten
growth_callback_NoCopy(counts, cells, callback) ==
    IF callback THEN FoldCells(counts, cells) ELSE counts

\* growth_callback: temp_counts = self.total_cell_counts.copy() is what the
\* cells are counted into, self.total_cell_counts stays as it is
growth_callback(counts, cells, callback) == counts

\* the counter update done in a "finally": the failed run's cells are counted
run_failed_Counted(counts, cells) == FoldCells(counts, cells)

\* "except Exception as e: logger.error(...); raise": the failed run's cells
\* are not counted
run_failed(counts, cells) == counts

(***************************************************************************)
(* State                                                                   *)
(***************************************************************************)
VARIABLES
    dim,                \* 2: DiagramSimulator2D, 3: DiagramSimulator3D
    total_cell_counts,  \* self.total_cell_counts
    snapshot,           \* the file save_state writes: None while it does not exist
    budget,             \* runs the simulator may still execute
    pc,                 \* "idle", "run" (head of the run loop), "step" (inside diagram.simulate)
    outcome,            \* how the last operation ended
    args,               \* n_steps, alpha, runs, callback of the current simulate call
    initial_cells,      \* the caller's initial_cells object (an Optional set)
    run,                \* loop variable of simulate
    step,               \* loop variable of diagram.simulate
    stopped,            \* the loop of diagram.simulate was left by break
    cells,              \* diagram.cells
    boundary_cells,     \* diagram._boundary_cells
    cells_is_arg,       \* diagram.cells is the caller's initial_cells object
    start_cells,        \* diagram.cells as the constructor of the current run left it
    \* history of the current simulate call
    arg_initial,        \* initial_cells as it was when the call was made
    pre_nonempty,       \* total_cell_counts had entries when the call was made
    run_starts,         \* the cell sets the diagrams of the runs were constructed with
    run_finals,         \* bag of diagram.cells of the completed runs, as they were folded
    added,              \* cells added by the current run
    observed,           \* <<run, step, len(diagram.cells)>> of every growth_callback invocation
    user_calls,         \* <<step, run>> of every invocation of the caller's callback
    failed_run,         \* the run that raised, 0 when none did
    \* the entropy source and the caller's objects
    set_order,          \* iteration order of the set objects this caller builds
    rng_log,            \* None, or the draws of a seeded random module and the cells
                        \* they selected, over the current simulate call
    returned,           \* what the last direct call of a method or function gave back
    saved_counts        \* None, or total_cell_counts as it was when the snapshot was written

vars == << dim, total_cell_counts, snapshot, budget, pc, outcome, args, initial_cells,
           run, step, stopped, cells, boundary_cells, cells_is_arg, start_cells, arg_initial,
           pre_nonempty, run_starts, run_finals, added, observed, user_calls, failed_run,
           set_order, rng_log, returned, saved_counts >>

locals == << run, step, stopped, cells, boundary_cells, cells_is_arg, start_cells >>
history == << run_starts, run_finals, added, observed, user_calls, failed_run >>

NoArgs == [n_steps |-> 0, alpha |-> 0, runs |-> 0, callback |-> FALSE]

\* the log of a seeded random module before the first draw of a call
EmptyLog == [draws |-> <<>>, picks |-> <<>>]

\* the log starts again with every call
NewLog == IF rng_log = None THEN None ELSE Some(EmptyLog)

\* DiagramSimulator2D.__init__ / DiagramSimulator3D.__init__
SimulatorInit ==
    /\ dim \in {2, 3}
    /\ total_cell_counts = EmptyCounts
    /\ snapshot = None
    /\ budget = MaxRuns
    /\ pc = "idle"
    /\ outcome = "none"
    /\ args = NoArgs
    /\ initial_cells = None
    /\ run = 0
    /\ step = 0
    /\ stopped = FALSE
    /\ cells = {}
    /\ boundary_cells = {}
    /\ cells_is_arg = FALSE
    /\ start_cells = {}
    /\ arg_initial = None
    /\ pre_nonempty = FALSE
    /\ run_starts = {}
    /\ run_finals = EmptyBag
    /\ added = {}
    /\ observed = <<>>
    /\ user_calls = <<>>
    /\ failed_run = 0
    /\ saved_counts = None

\* a new simulator in a process whose random module is not seeded
Init ==
    /\ SimulatorInit
    /\ set_order = FreshOrder
    /\ rng_log = None
    /\ returned = None

\* a new simulator in a process that seeds the random module, so that the
\* draws are known, and whose sets iterate in one of the orders
InitSeeded ==
    /\ SimulatorInit
    /\ set_order \in SetOrders
    /\ rng_log = Some(EmptyLog)
    /\ returned = None

InitialCellChoices == IF dim = 2 THEN InitialCellChoices2D ELSE InitialCellChoices3D
SimulatorValidation(n, a, r) ==
    IF dim = 2 THEN SimulatorValidation2D(n, a, r) ELSE SimulatorValidation3D(n, a, r)
DiagramValidation(n, a) ==
    IF dim = 2 THEN DiagramValidation2D(n, a) ELSE DiagramValidation3D(n, a)
Diagram_cells(ic) == IF dim = 2 THEN Diagram2D_cells(ic) ELSE Diagram3D_cells(ic)
calculate_boundary_cells(cs) ==
    IF dim = 2 THEN calculate_boundary_cells2D(cs) ELSE calculate_boundary_cells3D(cs)
get_addable_cells ==
    IF dim = 2 THEN get_addable_cells2D(cells, boundary_cells)
               ELSE get_addable_cells3D(cells, boundary_cells)
calculate_weight(cell, alpha) ==
    IF dim = 2 THEN calculate_weight2D(cell, alpha) ELSE calculate_weight3D(cell, alpha)
Drawable(addable_cells, alpha) ==
    IF dim = 2 THEN Drawable2D(addable_cells, alpha) ELSE Drawable3D(addable_cells, alpha)
ExhaustionPolicy == IF dim = 2 THEN ExhaustionPolicy2D ELSE ExhaustionPolicy3D
ObservedStep(s) == IF dim = 2 THEN ObservedStep2D(s) ELSE ObservedStep3D(s)

(***************************************************************************)
(* DiagramSimulator2D.simulate / DiagramSimulator3D.simulate               *)
(***************************************************************************)
\* entry of simulate: the validation raises before anything is touched;
\* otherwise the counter is reset and the run loop is entered
simulate(n_steps, alpha, runs, ic, callback) ==
    /\ pc = "idle"
    /\ runs <= budget
    /\ run' = 0
    /\ step' = 0
    /\ stopped' = FALSE
    /\ cells' = {}
    /\ boundary_cells' = {}
    /\ cells_is_arg' = FALSE
    /\ start_cells' = {}
    /\ run_starts' = {}
    /\ run_finals' = EmptyBag
    /\ added' = {}
    /\ observed' = <<>>
    /\ user_calls' = <<>>
    /\ failed_run' = 0
    /\ LET err == SimulatorValidation(n_steps, alpha, runs)
       IN  IF err # NoError
           THEN /\ outcome' = err
                /\ pc' = "idle"
                /\ args' = NoArgs
                /\ initial_cells' = None
                /\ arg_initial' = None
                /\ pre_nonempty' = FALSE
                /\ UNCHANGED << total_cell_counts, budget >>
           ELSE /\ args' = [n_steps |-> n_steps, alpha |-> alpha, runs |-> runs,
                            callback |-> callback]
                /\ initial_cells' = ic
                /\ arg_initial' = ic
                /\ pre_nonempty' = (DOMAIN total_cell_counts # {})
                /\ total_cell_counts' = ResetCounts(total_cell_counts)
                /\ outcome' = "running"
                /\ pc' = "run"
                /\ budget' = budget - runs
    /\ rng_log' = NewLog
    /\ UNCHANGED << dim, set_order, returned, saved_counts, snapshot >>

\* head of "for run in range(1, runs + 1)": Diagram(initial_cells) and the entry
\* of diagram.simulate with its validation
run_begin ==
    /\ pc = "run"
    /\ run + 1 <= args.runs
    /\ run' = run + 1
    /\ LET cs == Diagram_cells(initial_cells)
       IN  /\ cells' = cs
           /\ start_cells' = cs
           /\ cells_is_arg' = (initial_cells # None /\ initial_cells[1] # {})
           /\ boundary_cells' = calculate_boundary_cells(cs)
           /\ run_starts' = run_starts \cup {cs}
    /\ step' = 0
    /\ stopped' = FALSE
    /\ added' = {}
    /\ LET err == DiagramValidation(args.n_steps, args.alpha)
       IN  IF err = NoError
           THEN /\ pc' = "step"
                /\ UNCHANGED << outcome, failed_run >>
           ELSE /\ pc' = "idle"
                /\ outcome' = err
                /\ failed_run' = run + 1
    /\ UNCHANGED << dim, set_order, returned, saved_counts, total_cell_counts, snapshot, budget, args, initial_cells,
                    arg_initial, pre_nonempty, run_finals, observed, user_calls,
                    rng_log >>

\* the iteration order of the sets of the current diagram: diagram.cells is
\* the caller's object or a set literal of the constructor
cells_order == IF cells_is_arg THEN set_order ELSE FreshOrder

\* weights: calculate_weight of every cell of cells_list = list(addable_cells)
weights_of(addable_cells) ==
    LET cells_list == ListOf(addable_cells, cells_order)
    IN  [ i \in 1..Len(cells_list) |-> calculate_weight(cells_list[i], args.alpha) ]

\* probabilities = [w / total_weight for w in weights], each quotient as the
\* fraction num / den
probabilities(weights) ==
    LET total_weight == SumTo(weights, Len(weights))
    IN  [ i \in 1..Len(weights) |-> [num |-> weights[i], den |-> total_weight] ]

\* the selection made by an entropy source that the seed does not govern:
\* the draw is logged, the cell is any candidate
drawn_Unseeded(cell, addable_cells) ==
    IF rng_log = None
    THEN rng_log' = None
    ELSE \E u \in Draws :
             rng_log' = Some([draws |-> Append(rng_log[1].draws, u),
                             picks |-> Append(rng_log[1].picks, <<run, cell>>)])

\* cells_list = list(addable_cells), weights, and the draw that selects cell;
\* the draw is logged when the random module is seeded
drawn(cell, addable_cells) ==
    LET cells_list == ListOf(addable_cells, cells_order)
        weights == [ i \in 1..Len(cells_list) |-> calculate_weight(cells_list[i], args.alpha) ]
    IN  IF rng_log = None
        THEN rng_log' = None
        ELSE \E u \in Draws :
                 /\ cell = choices(cells_list, weights, u)
                 /\ rng_log' = Some([draws |-> Append(rng_log[1].draws, u),
                                     picks |-> Append(rng_log[1].picks, <<run, cell>>)])

\* add_cell that leaves the stored boundary as it was
add_cell_StaleBoundary(cell) ==
    /\ cells' = cells \cup {cell}
    /\ initial_cells' = IF cells_is_arg THEN Some(cells \cup {cell}) ELSE initial_cells
    /\ boundary_cells' = boundary_cells

\* add_cell that starts the set again from the new cell
add_cell_Replace(cell) ==
    /\ cells' = {cell}
    /\ initial_cells' = IF cells_is_arg THEN Some({cell}) ELSE initial_cells
    /\ boundary_cells' = calculate_boundary_cells({cell})

\* Diagram2D.add_cell / Diagram3D.add_cell: self.cells.add(cell), which is the
\* caller's set when the diagram was built on one, then the boundary is
\* computed again
add_cell(cell) ==
    /\ cells' = cells \cup {cell}
    /\ initial_cells' = IF cells_is_arg THEN Some(cells \cup {cell}) ELSE initial_cells
    /\ boundary_cells' = calculate_boundary_cells(cells \cup {cell})

\* the loop body with the callback invoked before add_cell
AddAndObserve_ObserveFirst(cell, observe) ==
    /\ add_cell(cell)
    /\ added' = added \cup {cell}
    /\ observed' = IF observe
                   THEN Append(observed, <<run, step, Cardinality(cells)>>)
                   ELSE observed
    /\ user_calls' = IF observe /\ args.callback
                     THEN Append(user_calls, <<step, run>>)
                     ELSE user_calls
    /\ total_cell_counts' = IF observe
                            THEN growth_callback(total_cell_counts, cells, args.callback)
                            ELSE total_cell_counts
    /\ step' = step + 1

\* Diagram.add_cell, then growth_callback when this step is observed: the
\* callback gets the diagram, whose cells it sees as add_cell left them
AddAndObserve(cell, observe) ==
    /\ add_cell(cell)
    /\ added' = added \cup {cell}
    /\ observed' = IF observe
                   THEN Append(observed, <<run, step, Cardinality(cells \cup {cell})>>)
                   ELSE observed
    /\ user_calls' = IF observe /\ args.callback
                     THEN Append(user_calls, <<step, run>>)
                     ELSE user_calls
    /\ total_cell_counts' = IF observe
                            THEN growth_callback(total_cell_counts, cells \cup {cell},
                                                 args.callback)
                            ELSE total_cell_counts
    /\ step' = step + 1

\* one iteration of the loop of Diagram2D.simulate / Diagram3D.simulate
growth_step ==
    /\ pc = "step"
    /\ ~stopped
    /\ step < args.n_steps
    /\ LET addable_cells == get_addable_cells
       IN  IF addable_cells = {}
           THEN /\ IF ExhaustionPolicy = "raise"
                   THEN /\ pc' = "idle"
                        /\ outcome' = ErrNoAddable
                        /\ failed_run' = run
                        /\ total_cell_counts' = run_failed(total_cell_counts, cells)
                        /\ UNCHANGED stopped
                   ELSE /\ stopped' = TRUE
                        /\ UNCHANGED << pc, outcome, failed_run, total_cell_counts >>
                /\ UNCHANGED << cells, initial_cells, boundary_cells, added, observed,
                                user_calls, step, rng_log >>
           ELSE /\ \E cell \in Drawable(addable_cells, args.alpha) :
                       /\ drawn(cell, addable_cells)
                       /\ AddAndObserve(cell, ObservedStep(step))
                /\ UNCHANGED << pc, outcome, failed_run, stopped >>
    /\ UNCHANGED << dim, set_order, returned, saved_counts, snapshot, budget, args, run, cells_is_arg, start_cells,
                    arg_initial, pre_nonempty, run_starts, run_finals >>

growth_step2D == dim = 2 /\ growth_step

growth_step3D == dim = 3 /\ growth_step

\* diagram.simulate returned: the run's cells are folded into the counter
run_fold ==
    /\ pc = "step"
    /\ step >= args.n_steps \/ stopped
    /\ total_cell_counts' = FoldCells(total_cell_counts, cells)
    /\ run_finals' = run_finals (+) SetToBag({cells})
    /\ pc' = "run"
    /\ UNCHANGED << dim, set_order, returned, saved_counts, snapshot, budget, outcome, args, initial_cells, run, step, stopped,
                    cells, boundary_cells, cells_is_arg, start_cells, arg_initial,
                    pre_nonempty, run_starts, added, observed, user_calls, failed_run,
                    rng_log >>

\* the run loop is exhausted: simulate returns
simulate_return ==
    /\ pc = "run"
    /\ run >= args.runs
    /\ pc' = "idle"
    /\ outcome' = "ok"
    /\ UNCHANGED << dim, set_order, returned, saved_counts, total_cell_counts, snapshot, budget, args, initial_cells,
                    locals, arg_initial, pre_nonempty, history, rng_log >>

(***************************************************************************)
(* save_state / load_state                                                 *)
(***************************************************************************)
\* no simulate call is in progress: its locals and its history are gone
NoCall ==
    /\ args' = NoArgs
    /\ initial_cells' = None
    /\ arg_initial' = None
    /\ pre_nonempty' = FALSE
    /\ run' = 0
    /\ step' = 0
    /\ stopped' = FALSE
    /\ cells' = {}
    /\ boundary_cells' = {}
    /\ cells_is_arg' = FALSE
    /\ start_cells' = {}
    /\ run_starts' = {}
    /\ run_finals' = EmptyBag
    /\ added' = {}
    /\ observed' = <<>>
    /\ user_calls' = <<>>
    /\ failed_run' = 0
    /\ rng_log' = NewLog

\* list(d.items()): the entries of a dict as <<key, value>> pairs
ItemsOf(d) == items(d, FreshOrder)

\* dict(items): the pairs as a mapping, a later pair replacing an earlier
\* one with the same key
DictOf(item_seq) ==
    [ k \in { item_seq[i][1] : i \in 1..Len(item_seq) } |->
        LET last == Max({ i \in 1..Len(item_seq) : item_seq[i][1] = k })
        IN  item_seq[last][2] ]

\* the pickle that writes every entry of the counter with count 1
pickle_dump_CountsLost(state) ==
    [ format |-> "pickle",
      entries |-> [ name \in DOMAIN state |->
                      [ i \in 1..Len(ItemsOf(state[name])) |->
                          <<ItemsOf(state[name])[i][1], 1>> ] ] ]

\* pickle.dump(state, f) of a dict of dicts: the bytes of the file, each dict
\* written as the sequence of its items
pickle_dump(state) ==
    [ format |-> "pickle",
      entries |-> [ name \in DOMAIN state |-> ItemsOf(state[name]) ] ]

\* pickle.load(f) of such bytes
pickle_load(bytes) ==
    [ name \in DOMAIN bytes.entries |-> DictOf(bytes.entries[name]) ]

\* a snapshot file an earlier process saved after simulate(n_steps=1, runs=5)
EarlierSnapshot(d) ==
    { Some(pickle_dump([total_cell_counts |->
              IF d = 2
              THEN (<<0, 0>> :> 5) @@ (<<1, 0>> :> 3) @@ (<<0, 1>> :> 2)
              ELSE (<<0, 0, 0>> :> 5) @@ (<<1, 0, 0>> :> 3) @@ (<<0, 0, 1>> :> 2)])) }

\* files that are no snapshot: bytes that are no pickle, and the pickle of a
\* dict without the key "total_cell_counts"
BrokenFiles ==
    { Some([format |-> "text", entries |-> <<>>]),
      Some(pickle_dump([cell_counts |-> EmptyCounts])) }

\* state = {"total_cell_counts": dict(self.total_cell_counts)};
\* pickle.dump(state, f)
save_state ==
    /\ pc = "idle"
    /\ snapshot' = Some(pickle_dump([total_cell_counts |-> total_cell_counts]))
    /\ saved_counts' = Some(total_cell_counts)
    /\ outcome' = "saved"
    /\ NoCall
    /\ UNCHANGED << dim, set_order, returned, total_cell_counts, budget, pc >>

\* load_state that clears the counter before it opens the file
load_state_ClearFirst(file) ==
    /\ pc = "idle"
    /\ IF file = None
       THEN /\ outcome' = "FileNotFoundError"
            /\ total_cell_counts' = EmptyCounts
       ELSE IF file[1].format # "pickle"
       THEN /\ outcome' = "UnpicklingError"
            /\ total_cell_counts' = EmptyCounts
       ELSE IF "total_cell_counts" \notin DOMAIN pickle_load(file[1])
       THEN /\ outcome' = "KeyError"
            /\ total_cell_counts' = EmptyCounts
       ELSE /\ total_cell_counts' = pickle_load(file[1]).total_cell_counts
            /\ outcome' = "loaded"
    /\ NoCall
    /\ UNCHANGED << dim, set_order, returned, saved_counts, snapshot, budget, pc >>

\* state = pickle.load(f);
\* self.total_cell_counts = defaultdict(int, state["total_cell_counts"]);
\* every exception is logged and raised again
load_state(file) ==
    /\ pc = "idle"
    /\ IF file = None
       THEN /\ outcome' = "FileNotFoundError"
            /\ UNCHANGED total_cell_counts
       ELSE IF file[1].format # "pickle"
       THEN /\ outcome' = "UnpicklingError"
            /\ UNCHANGED total_cell_counts
       ELSE IF "total_cell_counts" \notin DOMAIN pickle_load(file[1])
       THEN /\ outcome' = "KeyError"
            /\ UNCHANGED total_cell_counts
       ELSE /\ total_cell_counts' = pickle_load(file[1]).total_cell_counts
            /\ outcome' = "loaded"
    /\ NoCall
    /\ UNCHANGED << dim, set_order, returned, saved_counts, snapshot, budget, pc >>

\* the files a filename can name: the one save_state wrote, an earlier
\* process's snapshot, a file that is no snapshot, or no file at all
load_state_call ==
    \E file \in {snapshot, None} \cup EarlierSnapshot(dim) \cup BrokenFiles : load_state(file)

\* a call of simulate with any parameters; a call the validation rejects never
\* looks at initial_cells or callback
simulate_call ==
    \E n_steps \in 0..MaxSteps, alpha \in Alphas, runs \in 0..MaxRuns :
        IF SimulatorValidation(n_steps, alpha, runs) # NoError
        THEN simulate(n_steps, alpha, runs, None, FALSE)
        ELSE \E ic \in InitialCellChoices, callback \in CallbackChoices :
                 simulate(n_steps, alpha, runs, ic, callback)

Next ==
    \/ simulate_call
    \/ run_begin
    \/ growth_step2D
    \/ growth_step3D
    \/ run_fold
    \/ simulate_return
    \/ load_state_call

Spec == Init /\ [][Next]_vars

\* the simulator under a seeded random module
SpecSeeded == InitSeeded /\ [][Next]_vars

ErrNoCells == "ValueError: no cells"

\* limit_shape_visualize up to the plot, in a process where the imports of the
\* 3D method succeed: the error raised, or "grid" when
\* compute_limit_shape(self.total_cell_counts, dimensions=d) hands its points
\* to griddata
limit_shape_visualize ==
    IF DOMAIN total_cell_counts = {} THEN ErrNoCells
    ELSE compute_limit_shape(total_cell_counts, None, dim)

(***************************************************************************)
(* One long run from the default initial state                             *)
(***************************************************************************)
\* a new simulator whose caller asks for one run
InitLongRun ==
    /\ dim \in {2, 3}
    /\ total_cell_counts = EmptyCounts
    /\ snapshot = None
    /\ budget = 1
    /\ pc = "idle"
    /\ outcome = "none"
    /\ args = NoArgs
    /\ initial_cells = None
    /\ run = 0
    /\ step = 0
    /\ stopped = FALSE
    /\ cells = {}
    /\ boundary_cells = {}
    /\ cells_is_arg = FALSE
    /\ start_cells = {}
    /\ arg_initial = None
    /\ pre_nonempty = FALSE
    /\ run_starts = {}
    /\ run_finals = EmptyBag
    /\ added = {}
    /\ observed = <<>>
    /\ user_calls = <<>>
    /\ failed_run = 0
    /\ saved_counts = None
    /\ set_order = FreshOrder
    /\ rng_log = None
    /\ returned = None

\* simulate(n_steps=LongSteps, alpha=1.0, runs=1, callback=callback) with the
\* default initial_cells
simulate_long_call == simulate(LongSteps, 1, 1, None, TRUE)

NextLongRun ==
    \/ simulate_long_call
    \/ run_begin
    \/ growth_step2D
    \/ growth_step3D
    \/ run_fold
    \/ simulate_return

SpecLongRun == InitLongRun /\ [][NextLongRun]_vars

(***************************************************************************)
(* Snapshots of a simulator that holds any frequency map                   *)
(***************************************************************************)
\* a simulator that holds a map, from a simulate call or a loaded snapshot,
\* and runs no simulation from here on
InitSnapshot ==
    /\ dim \in {2, 3}
    /\ total_cell_counts \in FrequencyMaps(dim, MaxEntries)
    /\ snapshot = None
    /\ budget = 0
    /\ pc = "idle"
    /\ outcome = "none"
    /\ args = NoArgs
    /\ initial_cells = None
    /\ run = 0
    /\ step = 0
    /\ stopped = FALSE
    /\ cells = {}
    /\ boundary_cells = {}
    /\ cells_is_arg = FALSE
    /\ start_cells = {}
    /\ arg_initial = None
    /\ pre_nonempty = FALSE
    /\ run_starts = {}
    /\ run_finals = EmptyBag
    /\ added = {}
    /\ observed = <<>>
    /\ user_calls = <<>>
    /\ failed_run = 0
    /\ saved_counts = None
    /\ set_order = FreshOrder
    /\ rng_log = None
    /\ returned = None

NextSnapshot ==
    \/ save_state
    \/ load_state_call

SpecSnapshot == InitSnapshot /\ [][NextSnapshot]_vars

(***************************************************************************)
(* Diagram2D / Diagram3D used directly                                     *)
(***************************************************************************)
\* no simulator is at work
NoSimulator ==
    /\ total_cell_counts = EmptyCounts
    /\ snapshot = None
    /\ budget = 0
    /\ outcome = "none"
    /\ args = NoArgs
    /\ run = 0
    /\ step = 0
    /\ stopped = FALSE
    /\ arg_initial = None
    /\ pre_nonempty = FALSE
    /\ run_starts = {}
    /\ run_finals = EmptyBag
    /\ added = {}
    /\ observed = <<>>
    /\ user_calls = <<>>
    /\ failed_run = 0
    /\ start_cells = {}
    /\ set_order = FreshOrder
    /\ rng_log = None
    /\ saved_counts = None

\* Diagram2D(initial_cells) / Diagram3D(initial_cells)
InitDiagram ==
    /\ dim \in {2, 3}
    /\ pc = "diagram"
    /\ initial_cells \in DiagramArguments(dim)
    /\ cells = Diagram_cells(initial_cells)
    /\ cells_is_arg = (initial_cells # None /\ initial_cells[1] # {})
    /\ boundary_cells = calculate_boundary_cells(cells)
    /\ returned = None
    /\ NoSimulator

simulator_vars ==
    << dim, total_cell_counts, snapshot, budget, pc, outcome, args, run, step, stopped,
       cells_is_arg, start_cells, arg_initial, pre_nonempty, history, set_order, rng_log,
       saved_counts >>

\* diagram.add_cell(cell) for any cell
add_cell_call ==
    \E cell \in Grid(dim) :
        /\ Cardinality(cells \cup {cell}) <= MaxCells
        /\ add_cell(cell)
        /\ returned' = None
        /\ UNCHANGED simulator_vars

\* diagram.get_addable_cells()
get_addable_cells_call ==
    /\ returned' = Some([method |-> "get_addable_cells", value |-> get_addable_cells])
    /\ UNCHANGED << simulator_vars, cells, boundary_cells, initial_cells >>

NextDiagram ==
    \/ add_cell_call
    \/ get_addable_cells_call

SpecDiagram == InitDiagram /\ [][NextDiagram]_vars

(***************************************************************************)
(* Methods and functions without state, called directly                    *)
(***************************************************************************)
\* no diagram and no simulator is at work
InitFunctions ==
    /\ dim \in {2, 3}
    /\ pc = "functions"
    /\ initial_cells = None
    /\ cells = {}
    /\ cells_is_arg = FALSE
    /\ boundary_cells = {}
    /\ returned = None
    /\ NoSimulator

\* the cells a direct caller of calculate_weight names
WeightCells(d) ==
    IF d = 2
    THEN { <<x, y>> : x \in 0..(MaxCoord + 2), y \in 0..(MaxCoord + 2) }
    ELSE { <<x, y, z>> : x \in 0..(MaxCoord + 2), y \in 0..(MaxCoord + 2),
                         z \in 0..(MaxCoord + 2) }

\* diagram.calculate_weight(cell, alpha), the one call this caller makes
calculate_weight_call ==
    /\ returned = None
    /\ \E cell \in WeightCells(dim), alpha \in 0..MaxAlpha :
        /\ returned' = Some([method |-> "calculate_weight", cell |-> cell, alpha |-> alpha,
                             value |-> calculate_weight(cell, alpha)])
        /\ UNCHANGED << simulator_vars, cells, boundary_cells, initial_cells >>

\* compute_limit_shape(cell_counts, scaling_factor, dimensions)
compute_limit_shape_call ==
    /\ returned = None
    /\ \E cell_counts \in FrequencyMaps(dim, MaxEntries), scaling_factor \in ScalingFactors,
          dimensions \in {2, 3} :
        /\ returned' = Some([method |-> "compute_limit_shape",
                             cell_counts |-> cell_counts,
                             scaling_factor |-> scaling_factor,
                             dimensions |-> dimensions,
                             value |-> compute_limit_shape(cell_counts, scaling_factor,
                                                           dimensions),
                             frequencies |->
                                 IF compute_limit_shape(cell_counts, scaling_factor,
                                                        dimensions) = "grid"
                                 THEN frequencies(cell_counts, FreshOrder)
                                 ELSE <<>>,
                             cell_counts_after |-> cell_counts])
        /\ UNCHANGED << simulator_vars, cells, boundary_cells, initial_cells >>

\* save_cells_to_file(cell_counts, filename) of a dict built in either order
save_cells_to_file_call ==
    /\ returned = None
    /\ \E cell_counts \in FrequencyMaps(dim, MaxEntries), order \in SetOrders :
        /\ returned' = Some([method |-> "save_cells_to_file",
                             cell_counts |-> cell_counts,
                             order |-> order,
                             value |-> save_cells_to_file(cell_counts, order)])
        /\ UNCHANGED << simulator_vars, cells, boundary_cells, initial_cells >>

NextFunctions ==
    \/ calculate_weight_call
    \/ compute_limit_shape_call
    \/ save_cells_to_file_call

SpecFunctions == InitFunctions /\ [][NextFunctions]_vars

(***************************************************************************)
(* Properties                                                              *)
(***************************************************************************)
\* the cells c' <= c coordinatewise with all coordinates >= 0
Below(c) ==
    IF Len(c) = 2
    THEN { <<x, y>> : x \in 0..c[1], y \in 0..c[2] }
    ELSE { <<x, y, z>> : x \in 0..c[1], y \in 0..c[2], z \in 0..c[3] }

\* S is a downward-closed order ideal of N^d
DownwardClosed(S) == \A c \in S : Below(c) \subseteq S

\* the cell set a diagram constructed from the caller's argument starts with
CallerInitialCells == Diagram_cells(arg_initial)

\* C1: in a growth run that starts from a non-empty downward-closed initial
\* cell set (the default {0^d} included), cells is a downward-closed order
\* ideal after every add, in 2D and in 3D.
C1_CellsStayOrderIdeal ==
    DownwardClosed(CallerInitialCells) => DownwardClosed(cells)

\* a run on a caller-supplied order ideal has performed two adds
C1_Witness ==
    /\ pc = "step"
    /\ cells_is_arg
    /\ DownwardClosed(CallerInitialCells)
    /\ Cardinality(added) >= 2
    /\ Cardinality(cells) >= 3

\* C2: in every state of a diagram, after construction and after any add,
\* get_addable_cells() has no element in common with cells.
C2_AddableDisjointFromCells ==
    get_addable_cells \cap cells = {}

\* a boundary cell has a forward neighbour that is already in the diagram,
\* and there are addable cells
C2_Witness ==
    /\ dim = 3
    /\ get_addable_cells # {}
    /\ \E b \in boundary_cells :
           \/ <<b[1] + 1, b[2], b[3]>> \in cells
           \/ <<b[1], b[2] + 1, b[3]>> \in cells
           \/ <<b[1], b[2], b[3] + 1>> \in cells

RECURSIVE CopiesContaining(_, _)
\* the number of folded runs, among those with final cell set in S, whose
\* final cell set contains c
CopiesContaining(S, c) ==
    IF S = {} THEN 0
    ELSE LET s == CHOOSE t \in S : TRUE
         IN  (IF c \in s THEN CopiesIn(s, run_finals) ELSE 0)
             + CopiesContaining(S \ {s}, c)

\* the number of completed runs of the current call whose final state contains c
RunsContaining(c) == CopiesContaining(BagToSet(run_finals), c)

\* the union of the final cell sets of the completed runs of the current call
CompletedCells == UNION BagToSet(run_finals)

\* C3: when a simulate call has returned, all R runs were folded, the key set
\* of total_cell_counts is the union of the runs' final cell sets, and every
\* count is the number of runs whose final state contains the cell.
C3_MapCountsRunsContainingCell ==
    outcome = "ok" =>
        /\ BagCardinality(run_finals) = args.runs
        /\ DOMAIN total_cell_counts = CompletedCells
        /\ \A c \in DOMAIN total_cell_counts : total_cell_counts[c] = RunsContaining(c)

\* a returned call of two runs whose final states differ
C3_Witness ==
    /\ outcome = "ok"
    /\ args.runs = 2
    /\ \E c \in DOMAIN total_cell_counts : total_cell_counts[c] = 1
    /\ \E c \in DOMAIN total_cell_counts : total_cell_counts[c] = 2

\* an accepted simulate call is in progress, has returned or has failed
CallMade == args # NoArgs

\* C4: from the reset on and in the returned map, every value of
\* total_cell_counts is an integer between 1 and runs.
C4_CountsBetweenOneAndRuns ==
    CallMade =>
        \A c \in DOMAIN total_cell_counts :
            total_cell_counts[c] >= 1 /\ total_cell_counts[c] <= args.runs

\* the second run is growing, its steps are observed by the caller's callback,
\* and the first run's cells are counted once
C4_Witness ==
    /\ pc = "step"
    /\ run = 2
    /\ step >= 1
    /\ Len(user_calls) >= 2
    /\ \E c \in DOMAIN total_cell_counts : total_cell_counts[c] = 1

\* C5: every run of a simulate call starts from a diagram whose cells are the
\* initial_cells the caller passed (the default {0^d} for None or an empty
\* set): no cell added by an earlier run is there when a later run starts.
C5_EveryRunStartsFromInitialCells ==
    \A s \in run_starts : s = CallerInitialCells

\* C6: when run k of a 2D simulate call fails for want of an addable cell, the
\* call ends with the error, no later run starts, and total_cell_counts is
\* the fold of the k-1 completed runs: the failed run counted nothing.
C6_FailedRunContributesNothing ==
    (dim = 2 /\ outcome = ErrNoAddable) =>
        /\ pc = "idle"
        /\ failed_run >= 1
        /\ run = failed_run
        /\ BagCardinality(run_finals) = failed_run - 1
        /\ DOMAIN total_cell_counts = CompletedCells
        /\ \A c \in CompletedCells : total_cell_counts[c] = RunsContaining(c)

\* the second run of a 2D call failed after the first one was folded
C6_Witness ==
    /\ dim = 2
    /\ outcome = ErrNoAddable
    /\ failed_run = 2
    /\ BagCardinality(run_finals) = 1
    /\ DOMAIN total_cell_counts # {}

\* n_steps <= 0, or runs <= 0, or alpha <= 0
InvalidParams(n_steps, alpha, runs) == n_steps <= 0 \/ runs <= 0 \/ alpha <= 0

\* C7: simulate called with n_steps <= 0, runs <= 0 or alpha <= 0 fails with
\* a ValueError, adds no cell to any diagram and no entry to
\* total_cell_counts.  The 2D simulator raises at its entry; the 3D simulator
\* lets alpha <= 0 through to Diagram3D.simulate, which raises before its
\* first step.
C7_InvalidParametersFail ==
    [][ /\ \A n \in 0..MaxSteps, a \in Alphas, r \in 0..MaxRuns :
              (/\ pc = "idle"
               /\ InvalidParams(n, a, r)
               /\ simulate(n, a, r, initial_cells', args'.callback)) =>
                  /\ DOMAIN total_cell_counts' \subseteq DOMAIN total_cell_counts
                  /\ cells' = {}
                  /\ added' = {}
                  /\ \/ pc' = "idle" /\ outcome' \in ValueErrors
                     \/ /\ pc' = "run"
                        /\ run' = 0
                        /\ InvalidParams(args'.n_steps, args'.alpha, args'.runs)
        /\ (pc = "run" /\ InvalidParams(args.n_steps, args.alpha, args.runs)) =>
              /\ pc' = "idle"
              /\ outcome' \in ValueErrors
              /\ cells' = start_cells'
              /\ added' = {}
              /\ total_cell_counts' = total_cell_counts
      ]_vars

\* the 3D simulator was called with alpha <= 0: the diagram of run 1 raised
\* before its first step
C7_Witness ==
    /\ dim = 3
    /\ pc = "idle"
    /\ outcome = ErrAlpha
    /\ args.alpha <= 0
    /\ failed_run = 1
    /\ cells # {}
    /\ added = {}

\* C8: total_cell_counts is reset at the start of every simulate call with
\* valid parameters, so the map a returned call leaves holds no key and no
\* count from an earlier simulate or from a loaded snapshot.
C8_MapReflectsOnlyLastCall ==
    /\ (pc = "run" /\ run = 0) => total_cell_counts = EmptyCounts
    /\ outcome = "ok" =>
           \A c \in DOMAIN total_cell_counts :
               c \in CompletedCells /\ total_cell_counts[c] <= RunsContaining(c)

\* a call returned that had found entries in the map when it was made
C8_Witness ==
    /\ outcome = "ok"
    /\ pre_nonempty
    /\ DOMAIN total_cell_counts # {}

\* the steps of run r at which growth_callback was invoked
ObservedSteps(r) == { observed[i][2] : i \in { j \in DOMAIN observed : observed[j][1] = r } }

\* the number of growth_callback invocations of run r
ObservedCount(r) == Cardinality({ j \in DOMAIN observed : observed[j][1] = r })

\* C9: a 2D run that finds no addable cell at the start of step k < n_steps
\* aborts there with a ValueError: cells holds the initial cells and the k
\* cells added in steps 0..k-1, the observer was invoked for exactly those
\* steps, and nothing follows.  A 2D run never leaves its loop early in any
\* other way: a run that is folded has done all n_steps steps.
C9_Exhausted2DRunAborts ==
    /\ (dim = 2 /\ outcome = ErrNoAddable) =>
           /\ pc = "idle"
           /\ step < args.n_steps
           /\ get_addable_cells = {}
           /\ start_cells \cap added = {}
           /\ cells = start_cells \cup added
           /\ Cardinality(added) = step
           /\ ObservedSteps(run) = 0..(step - 1)
           /\ ObservedCount(run) = step
    /\ dim = 2 => ~stopped
    /\ (dim = 2 /\ pc = "run" /\ run >= 1) =>
           step = args.n_steps /\ Cardinality(added) = args.n_steps

\* a 2D run added a cell at step 0 and found nothing addable at step 1
C9_Witness ==
    /\ dim = 2
    /\ outcome = ErrNoAddable
    /\ step = 1
    /\ Cardinality(added) = 1
    /\ args.n_steps = 2

addable_of(cs) ==
    IF dim = 2 THEN get_addable_cells2D(cs, calculate_boundary_cells2D(cs))
               ELSE get_addable_cells3D(cs, calculate_boundary_cells3D(cs))

\* ic is a set object of the caller that the diagrams grow
CallerObject(ic) == ic # None /\ ic[1] # {}

\* the execution of simulate as a function of nothing but its parameters, the
\* iteration order of the caller's set and the draws: r is the execution so
\* far, draws the draws not yet consumed
RECURSIVE Replay(_, _, _, _, _, _, _)
Replay(r, n_steps, alpha, runs, ic, order, draws) ==
    IF r.status # "running" THEN r
    ELSE IF r.run > runs THEN [r EXCEPT !.status = "ok"]
    ELSE IF DiagramValidation(n_steps, alpha) # NoError
         THEN [r EXCEPT !.status = DiagramValidation(n_steps, alpha)]
    ELSE LET addable_cells == addable_of(r.cells)
             cells_list == ListOf(addable_cells, IF CallerObject(ic) THEN order ELSE FreshOrder)
             weights == [ i \in 1..Len(cells_list) |-> calculate_weight(cells_list[i], alpha) ]
         IN  IF r.step >= n_steps \/ (addable_cells = {} /\ ExhaustionPolicy = "break")
             THEN Replay([r EXCEPT !.run = r.run + 1,
                                   !.step = 0,
                                   !.cells = IF CallerObject(ic) THEN r.cells
                                                                 ELSE Diagram_cells(ic),
                                   !.finals = Append(r.finals, r.cells)],
                         n_steps, alpha, runs, ic, order, draws)
             ELSE IF addable_cells = {} THEN [r EXCEPT !.status = ErrNoAddable]
             ELSE IF draws = <<>> THEN r
             ELSE LET cell == choices(cells_list, weights, Head(draws))
                  IN  Replay([r EXCEPT !.step = r.step + 1,
                                       !.cells = r.cells \cup {cell},
                                       !.picks = Append(r.picks, <<r.run, cell>>)],
                             n_steps, alpha, runs, ic, order, Tail(draws))

\* the execution that the parameters of the current call, an iteration order
\* and the logged draws determine
Replayed(order) ==
    Replay([status |-> "running", run |-> 1, step |-> 0, cells |-> Diagram_cells(arg_initial),
            picks |-> <<>>, finals |-> <<>>],
           args.n_steps, args.alpha, args.runs, arg_initial, order, rng_log[1].draws)

\* the frequency map of an execution: for each cell the number of runs whose
\* final cells contain it
CountsOf(r) ==
    [ c \in UNION { r.finals[k] : k \in 1..Len(r.finals) } |->
        Cardinality({ k \in 1..Len(r.finals) : c \in r.finals[k] }) ]

\* the current call went as the execution r: the same cells in the same
\* order in every run and, once it has returned, the same frequency map
WentAs(r) ==
    /\ rng_log[1].picks = r.picks
    /\ outcome # "running" =>
           /\ outcome = r.status
           /\ outcome = "ok" => total_cell_counts = CountsOf(r)

Returned(method) == returned # None /\ returned[1].method = method

\* the cell one step further along axis i
Forward(c, i) == [c EXCEPT ![i] = @ + 1]

C13_LimitShapeRejectsEmptyMapAndNonPositiveFactor ==
    Returned("compute_limit_shape") =>
        LET m == returned[1].cell_counts
            f == returned[1].scaling_factor
        IN  ( \/ DOMAIN m = {}
              \/ f # None /\ f[1] <= 0
              \/ f = None /\ \A c \in DOMAIN m : \A i \in 1..Len(c) : c[i] = 0 )
                => returned[1].value \in LimitShapeErrors

C13_Witness ==
    /\ Returned("compute_limit_shape")
    /\ dim = 3
    /\ returned[1].dimensions = 3
    /\ returned[1].cell_counts = (<<0, 0, 0>> :> 2)
    /\ returned[1].scaling_factor = None
    /\ returned[1].value = ErrScaling


(***************************************************************************)
(* C14, C15: snapshots                                                     *)
(***************************************************************************)
\* C14: save_state leaves total_cell_counts as it is, and load_state of the
\* file save_state wrote gives the simulator, whatever map it holds by then,
\* a total_cell_counts with exactly the keys and the counts the saved map had.
C14_SnapshotRoundTrip ==
    [][ /\ save_state => total_cell_counts' = total_cell_counts
        /\ (snapshot # None /\ load_state(snapshot)) =>
               /\ outcome' = "loaded"
               /\ DOMAIN total_cell_counts' = DOMAIN saved_counts[1]
               /\ \A c \in DOMAIN saved_counts[1] :
                      total_cell_counts'[c] = saved_counts[1][c] ]_vars

C14_Witness ==
    /\ outcome = "loaded"
    /\ dim = 3
    /\ saved_counts # None
    /\ total_cell_counts = saved_counts[1]
    /\ total_cell_counts = (<<0, 0, 0>> :> 2) @@ (<<0, 1, 1>> :> 1)


\* the exceptions load_state raises again
LoadErrors == {"FileNotFoundError", "UnpicklingError", "KeyError"}

\* C15: load_state of a file that does not exist, that is no pickle, or whose
\* pickle has no "total_cell_counts" entry ends at once with the error, and
\* total_cell_counts is exactly what it was before the call.
C15_FailedLoadLeavesMap ==
    [][ \A file \in {None} \cup BrokenFiles :
            load_state(file) =>
                /\ outcome' \in LoadErrors
                /\ pc' = "idle"
                /\ total_cell_counts' = total_cell_counts ]_vars

C15_Witness ==
    /\ outcome \in {"FileNotFoundError", "KeyError"}
    /\ snapshot = None
    /\ total_cell_counts = (<<0, 0>> :> 2) @@ (<<1, 0>> :> 1)


(***************************************************************************)
(* C16: the text dump                                                      *)
(***************************************************************************)
RECURSIVE CommaSeparated(_)
\* the decimal numbers of a sequence of integers with "," between them
CommaSeparated(numbers) ==
    IF Len(numbers) = 1 THEN ToString(numbers[1])
    ELSE ToString(Head(numbers)) \o "," \o CommaSeparated(Tail(numbers))

\* C16: save_cells_to_file writes one line per entry of the map, the line of
\* a cell being its coordinates and then its count, comma-separated; the
\* cells of successive lines are in strictly ascending lexicographic order;
\* and a dict with the same entries in another order gives the same lines.
C16_TextDumpSortedOneLinePerEntry ==
    Returned("save_cells_to_file") =>
        LET m == returned[1].cell_counts
            lines == returned[1].value
        IN  /\ Len(lines) = Cardinality(DOMAIN m)
            /\ \E cell_of \in [1..Len(lines) -> DOMAIN m] :
                   /\ \A i \in 1..Len(lines) :
                          lines[i] = CommaSeparated(cell_of[i] \o <<m[cell_of[i]]>>) \o "\n"
                   /\ \A i, j \in 1..Len(lines) :
                          i < j => TupleLess(cell_of[i], cell_of[j])
            /\ \A order \in SetOrders : save_cells_to_file(m, order) = lines

C16_Witness ==
    /\ Returned("save_cells_to_file")
    /\ returned[1].order = "desc"
    /\ returned[1].value = << "0,0,1,2\n", "1,0,0,1\n" >>


(***************************************************************************)
(* C17, C18: the first step from the origin                                *)
(***************************************************************************)
\* the current call is simulate(n_steps=1, alpha=1, runs=1) of a dim-D
\* simulator with the default initial cell
OneStepFromOrigin(d) ==
    /\ dim = d
    /\ CallMade
    /\ args.n_steps = 1
    /\ args.alpha = 1
    /\ args.runs = 1
    /\ ~CallerObject(arg_initial)

\* in 2D simulate(steps=1, alpha=1, runs=1) from the default origin, the
\* addable set at the only step is {(1,0),(0,1)}, both cells weigh w, either
\* of them can be the one added, and the map returned is
\* {(0,0):1, (1,0):1} or {(0,0):1, (0,1):1}
OneStepFromOrigin2D(w) ==
    OneStepFromOrigin(2) =>
        /\ (pc = "step" /\ step = 0) =>
               /\ cells = {<<0, 0>>}
               /\ get_addable_cells = {<<1, 0>>, <<0, 1>>}
               /\ \A c \in get_addable_cells : calculate_weight2D(c, args.alpha) = w
               /\ ENABLED (growth_step /\ cells' = {<<0, 0>>, <<1, 0>>})
               /\ ENABLED (growth_step /\ cells' = {<<0, 0>>, <<0, 1>>})
        /\ outcome = "ok" =>
               total_cell_counts \in { (<<0, 0>> :> 1) @@ (<<1, 0>> :> 1),
                                       (<<0, 0>> :> 1) @@ (<<0, 1>> :> 1) }

OneStepFromOrigin3D ==
    /\ dim = 3 /\ CallMade
    /\ args.n_steps = 1 /\ args.alpha = 1
    /\ pc = "step" /\ step = 0
    /\ cells = {<<0, 0, 0>>}

\* in that state the addable set is {(1,0,0),(0,1,0),(0,0,1)}, each of the three
\* weighs w, and the step can add any one of them
ThreeEqualCandidates(w) ==
    OneStepFromOrigin3D =>
        /\ get_addable_cells = {<<1, 0, 0>>, <<0, 1, 0>>, <<0, 0, 1>>}
        /\ \A c \in get_addable_cells :
               /\ calculate_weight3D(c, args.alpha) = w
               /\ ENABLED (growth_step /\ cells' = cells \cup {c})

\* C18 (as stated): 3D growth from {(0,0,0)} with steps = 1 and alpha = 1 has
\* the addable set {(1,0,0),(0,1,0),(0,0,1)} at its only step, and each of the
\* three candidates weighs 1.
C18_OneStepFromOrigin3DWeightOne == ThreeEqualCandidates(1)

\* C18 (amended): the same, with the weight 2 = ((1+1)*(0+1)*(0+1))^1 for each
\* of the three candidates; the weights are equal, so the selection is uniform
\* and every candidate can be the one added.
C18_OneStepFromOrigin3D == ThreeEqualCandidates(2)

\* the only step of such a run has added (0,0,1)
C18_Witness ==
    /\ dim = 3 /\ CallMade
    /\ args.n_steps = 1 /\ args.alpha = 1
    /\ pc = "step" /\ step = 1
    /\ cells = {<<0, 0, 0>>, <<0, 0, 1>>}

\* the axes of a cell
Axes(c) == 1..Len(c)

\* c - e_i
Backward(c, i) == [c EXCEPT ![i] = @ - 1]

\* the cells one step beyond the cells a caller names
Candidates(d) ==
    IF d = 2
    THEN { <<x, y>> : x \in 0..(MaxCoord + 2), y \in 0..(MaxCoord + 2) }
    ELSE { <<x, y, z>> : x \in 0..(MaxCoord + 1), y \in 0..(MaxCoord + 1),
                         z \in 0..(MaxCoord + 1) }

\* the addable set of the definition: c is not a cell and on every axis it is
\* at 0 or its backward neighbour is a cell
AddableSet(cs) ==
    { c \in Candidates(dim) :
        /\ c \notin cs
        /\ \A i \in Axes(c) : c[i] = 0 \/ Backward(c, i) \in cs }

\* C19: for every non-empty downward-closed cell set, 2D and 3D, what
\* get_addable_cells() returns from its scan of the forward neighbours of the
\* stored boundary cells is exactly the addable set of the definition.
C19_AddableCellsAreTheAddableSet ==
    (Returned("get_addable_cells") /\ cells # {} /\ DownwardClosed(cells)) =>
        returned[1].value = AddableSet(cells)

\* get_addable_cells() returned the three addable cells of an L-shaped diagram
\* built by add_cell
C19_Witness ==
    /\ Returned("get_addable_cells")
    /\ dim = 2
    /\ cells = {<<0, 0>>, <<1, 0>>, <<0, 1>>, <<2, 0>>}
    /\ returned[1].value = {<<3, 0>>, <<1, 1>>, <<0, 2>>}

\* C20: after construction and after every add_cell, for any initial set and
\* any added cell, 2D and 3D, the stored boundary is the set of the cells that
\* miss their forward neighbour on some axis: it is never stale with respect
\* to cells between the operations of the diagram.
C20_StoredBoundaryIsCurrent ==
    pc = "diagram" =>
        boundary_cells = { c \in cells : \E i \in Axes(c) : Forward(c, i) \notin cells }

\* add_cell has closed the corner of a 2D diagram: the origin has left the boundary
C20_Witness ==
    /\ pc = "diagram"
    /\ dim = 2
    /\ cells = {<<0, 0>>, <<1, 0>>, <<0, 1>>}
    /\ boundary_cells = {<<1, 0>>, <<0, 1>>}

\* the loop of diagram.simulate is about to run the body for the next step
AtStep == pc = "step" /\ ~stopped /\ step < args.n_steps

\* C21: a growth step that finds a non-empty candidate set adds exactly one
\* cell, a member of the addable set computed at the start of that step:
\* cells after the step is cells before it plus that cell, nothing is lost,
\* and every member of the addable set can be the one chosen.
C21_StepAddsOneAddableCell ==
    /\ [](AtStep =>
             \A c \in get_addable_cells : ENABLED (growth_step /\ cells' = cells \cup {c}))
    /\ [][ (growth_step /\ get_addable_cells # {}) =>
               /\ \E c \in get_addable_cells :
                      /\ c \notin cells
                      /\ cells' = cells \cup {c}
               /\ cells \subseteq cells'
               /\ Cardinality(cells') = Cardinality(cells) + 1 ]_vars

\* the second step of a 3D run has added its cell
C21_Witness ==
    /\ dim = 3
    /\ pc = "step"
    /\ step = 2
    /\ Cardinality(added) = 2
    /\ Cardinality(cells) = Cardinality(start_cells) + 2

\* the steps among 0..(n - 1) at which the engine invokes its observer
CallbackSteps(n) == { s \in 0..(n - 1) : IF dim = 2 THEN TRUE ELSE s % 10 = 0 }

C23_PositiveWeightsNormalize ==
    (AtStep /\ get_addable_cells # {}) =>
        LET weights == weights_of(get_addable_cells)
            p == probabilities(weights)
        IN  /\ args.alpha > 0
            /\ Len(weights) = Cardinality(get_addable_cells)
            /\ \A i \in DOMAIN weights : weights[i] > 0
            /\ SumTo(weights, Len(weights)) > 0
            /\ \A i \in DOMAIN p : p[i].den # 0 /\ p[i].num > 0 /\ p[i].num <= p[i].den
            /\ SumTo([i \in DOMAIN p |-> p[i].num], Len(p)) = p[1].den

\* the second step of a run has three or more candidates to weigh
C23_Witness ==
    /\ AtStep
    /\ step = 1
    /\ Cardinality(added) = 1
    /\ Cardinality(get_addable_cells) >= 3
    /\ \E i \in DOMAIN weights_of(get_addable_cells) : weights_of(get_addable_cells)[i] >= 3

\* C24: compute_limit_shape of a non-empty map with positive counts gives one
\* sample per entry whose value is count / (maximum count of the map): every
\* value v has 0 < v <= 1, at least one sample has v = 1, and the map the
\* caller passed has the entries it had.
C24_FrequenciesNormalizedByMaximum ==
    (Returned("compute_limit_shape") /\ returned[1].value = "grid") =>
        LET cell_counts == returned[1].cell_counts
            f == returned[1].frequencies
            keys == ListOf(DOMAIN cell_counts, FreshOrder)
        IN  /\ Len(f) = Cardinality(DOMAIN cell_counts)
            /\ \A i \in DOMAIN f :
                   /\ f[i].num = cell_counts[keys[i]]
                   /\ f[i].den = Max({ cell_counts[c] : c \in DOMAIN cell_counts })
                   /\ 0 < f[i].num
                   /\ f[i].num <= f[i].den
            /\ \E i \in DOMAIN f : f[i].num = f[i].den
            /\ returned[1].cell_counts_after = cell_counts

\* a map with counts 1 and 2: the samples are 1/2 and 1
C24_Witness ==
    /\ Returned("compute_limit_shape")
    /\ returned[1].value = "grid"
    /\ { <<returned[1].frequencies[i].num, returned[1].frequencies[i].den>> :
            i \in DOMAIN returned[1].frequencies } = { <<1, 2>>, <<2, 2>> }

\* C25: growth never exhausts from a valid diagram: every non-empty
\* downward-closed cell set has an addable cell, so in a run from the default
\* {0^d} the 2D engine never raises for want of one, the 3D engine never
\* stops early, and the run that is folded has made all its steps.
C25_GrowthNeverExhausts ==
    /\ (cells # {} /\ DownwardClosed(cells)) => get_addable_cells # {}
    /\ (CallMade /\ ~CallerObject(arg_initial)) =>
           /\ outcome # ErrNoAddable
           /\ ~stopped
           /\ (pc = "run" /\ run >= 1) => step = args.n_steps

\* the long run from the default origin was folded with all its steps made
C25_Witness ==
    /\ ~CallerObject(arg_initial)
    /\ pc = "run"
    /\ run = 1
    /\ step = LongSteps
    /\ Cardinality(cells) = LongSteps + 1
    /\ DownwardClosed(cells)

\* Diagram2D.size / Diagram3D.size: len(self.cells)
size == Cardinality(cells)

RECURSIVE SumOfValues(_)
\* sum(counts.values())
SumOfValues(counts) ==
    IF DOMAIN counts = {} THEN 0
    ELSE LET c == CHOOSE k \in DOMAIN counts : TRUE
         IN  counts[c] + SumOfValues([ k \in DOMAIN counts \ {c} |-> counts[k] ])

\* a call with the default initial state: initial_cells None or empty
FromDefault == CallMade /\ ~CallerObject(arg_initial)

\* C26: a growth run of n_steps > 0 from the default {0^d} ends after exactly
\* n_steps steps with size() = 1 + n_steps, and when simulate(n_steps, runs=R)
\* from the default has returned, the values of the FrequencyMap add up to
\* R * (n_steps + 1).
C26_RunSizeAndMapTotal ==
    FromDefault =>
        /\ step <= args.n_steps
        /\ pc = "step" => size = 1 + step
        /\ (pc = "step" /\ step = args.n_steps) => ENABLED run_fold /\ ~ENABLED growth_step
        /\ (pc = "run" /\ run >= 1) => step = args.n_steps /\ size = 1 + args.n_steps
        /\ pc = "run" => SumOfValues(total_cell_counts) = run * (args.n_steps + 1)
        /\ outcome = "ok" =>
               SumOfValues(total_cell_counts) = args.runs * (args.n_steps + 1)

\* simulate(2, runs=2) from the default returned: the counts add up to 6
C26_Witness ==
    /\ FromDefault
    /\ outcome = "ok"
    /\ args.n_steps = 2
    /\ args.runs = 2
    /\ SumOfValues(total_cell_counts) = 6
    /\ Cardinality(DOMAIN total_cell_counts) = 5

\* C27: simulate and the diagram constructor leave the caller-supplied
\* initial_cells set unchanged: while the call runs and after it has returned
\* or failed, the caller's set has exactly the cells it had when the call
\* was made.
C27_CallerSetUnchanged ==
    (CallMade /\ CallerObject(arg_initial)) => initial_cells = arg_initial

\* C28: a simulate call that fails the validation of its parameters
\* (n_steps <= 0, runs <= 0 or alpha <= 0), in 2D and in 3D, leaves the map
\* accumulated before the call as it was: from the call to the ValueError no
\* step changes total_cell_counts.
C28_InvalidCallKeepsMap ==
    [][ /\ \A n \in 0..MaxSteps, a \in Alphas, r \in 0..MaxRuns :
              (/\ pc = "idle"
               /\ InvalidParams(n, a, r)
               /\ simulate(n, a, r, initial_cells', args'.callback)) =>
                  total_cell_counts' = total_cell_counts
        /\ (pc = "run" /\ InvalidParams(args.n_steps, args.alpha, args.runs)) =>
              total_cell_counts' = total_cell_counts
      ]_vars

\* the origin 0^d
Origin == IF dim = 2 THEN <<0, 0>> ELSE <<0, 0, 0>>

\* C29: after a successful simulate of R runs from the default initial state
\* the FrequencyMap is order-reversing on cells: its key set is downward
\* closed, a key below another has a count at least as large, and the origin
\* has count exactly R, which is the maximum frequency of the map.
C29_MapIsOrderReversing ==
    (outcome = "ok" /\ FromDefault) =>
        /\ DownwardClosed(DOMAIN total_cell_counts)
        /\ \A c \in DOMAIN total_cell_counts :
               \A b \in Below(c) : total_cell_counts[b] >= total_cell_counts[c]
        /\ Origin \in DOMAIN total_cell_counts
        /\ total_cell_counts[Origin] = args.runs
        /\ Max({ total_cell_counts[c] : c \in DOMAIN total_cell_counts }) = args.runs

\* two 3D runs of two steps that agree on the first added cell only
C29_Witness ==
    /\ outcome = "ok"
    /\ FromDefault
    /\ dim = 3
    /\ args.runs = 2
    /\ args.n_steps = 2
    /\ Cardinality({ c \in DOMAIN total_cell_counts : total_cell_counts[c] = 2 }) = 2
    /\ Cardinality({ c \in DOMAIN total_cell_counts : total_cell_counts[c] = 1 }) = 2

\* C30: every FrequencyMap a successful simulate (n_steps >= 1) from the default
\* initial state returns has a cell whose coordinate sum is >= 1, so
\* compute_limit_shape on it with the default scaling factor resolves a
\* factor > 0 and fails neither for a non-positive factor nor for an empty map.
C30_LimitShapeOfReturnedMap ==
    (outcome = "ok" /\ FromDefault) =>
        /\ args.n_steps >= 1
        /\ \E c \in DOMAIN total_cell_counts : SumOf(c) >= 1
        /\ LET n == Max({ SumOf(c) : c \in DOMAIN total_cell_counts })
           IN  n >= 1 /\ ~NonPositive(IF dim = 2 THEN sqrt(n) ELSE cbrt(n))
        /\ compute_limit_shape(total_cell_counts, None, dim) \notin {ErrScaling, ErrNoData}
        /\ limit_shape_visualize = "grid"

\* a 3D call of one step returned and its map goes through to the interpolation
C30_Witness ==
    /\ outcome = "ok"
    /\ FromDefault
    /\ dim = 3
    /\ args.n_steps = 1
    /\ Max({ SumOf(c) : c \in DOMAIN total_cell_counts }) = 1
    /\ limit_shape_visualize = "grid"

====
